---------------------------- MODULE Spec2Model ----------------------------
(***************************************************************************)
(* A state-machine model of the constrained-sampling engine of jaxns:      *)
(*   - samplers/uni_slice_sampler.py   (UniDimSliceSampler, _new_proposal) *)
(*   - likelihood_samplers/multi_ellipsoidal_samplers.py (get_sample)      *)
(*                                                                         *)
(* Reals are modelled on an integer grid.  The unit cube is Grid steps     *)
(* wide, one step standing for the float resolution eps (Eps), so the      *)
(* termination guard `right - left <= 2 * eps` is a width of 2 * Eps       *)
(* steps.  Log-likelihoods and thresholds are integers counting tenths of  *)
(* a nat, so the back-off decrement 0.1 is one unit (Backoff).  Random     *)
(* draws (t, alpha, directions, ellipsoid candidates) and the external     *)
(* gradient are nondeterministic choices.                                  *)
(***************************************************************************)
EXTENDS Integers, Sequences, FiniteSets, TLC

VARIABLES
    pc,                  \* position of the program
    model,               \* the model handed to the sampler (its forward likelihood)
    ctor_args,           \* arguments of the last UniDimSliceSampler(...) call
    sampler,             \* the constructed UniDimSliceSampler, or NoSampler
    seed_point,          \* get_sample_from_seed: argument seed_point
    log_L_constraint,    \* get_sample_from_seed: argument log_L_constraint
    sample,              \* propose_op: the chain state threaded through the scan
    cumulative_samples,  \* the scan's per-step outputs so far
    carry,               \* _new_proposal: the while_loop carry
    result,              \* get_sample_from_seed: (final_sample, phantom_samples)
    evals,               \* history: calls of the model made by this invocation
    ell_in,              \* MultiellipsoidalSampler.get_sample: threshold and efficiency_threshold
    ell,                 \* MultiellipsoidalSampler.get_sample: CarryState
    ell_inforce,         \* history: the constraint the last acceptance test compared against
    ell_sample,          \* MultiellipsoidalSampler.get_sample: the returned Sample
    window,              \* get_seed_point: the front window of the sample collection
    gumbel,              \* get_seed_point: the Gumbel draws g, one per window entry
    grad                 \* history: the value jax.grad(model.forward)(U0) of the last gradient slice

vars == <<pc, model, ctor_args, sampler, seed_point, log_L_constraint, sample,
          cumulative_samples, carry, result, evals,
          ell_in, ell, ell_inforce, ell_sample, window, gumbel, grad>>

-----------------------------------------------------------------------------
(* Bounds of the model *)

\* the unit cube is Grid steps wide: coordinates are 0..Grid
Grid == 4
\* num_slices ranges over ..MaxSlices
MaxSlices == 2
\* at most MaxIters iterations of one proposal's shrink-propose loop are followed
MaxIters == 2

\* the split of the evaluation count is applied to totals 0..MaxTotal
MaxTotal == 12
\* and to chains of 1..MaxChain slices
MaxChain == 4

\* numbers of dimensions of the models
Dims == {1}

\* the values random.uniform(key) takes for alpha, in units of 1/AlphaDen: 0 and 1/2
Alphas == {0, 1}
AlphaDen == Cardinality(Alphas)

(* Program constants *)

\* jnp.finfo(dtype).eps, the float resolution: one grid step
Eps == 1
\* the back-off decrement 0.1, in tenths
Backoff == 1

-----------------------------------------------------------------------------
(* Extended numbers: +inf, -inf and nan of the float arithmetic *)

PosInf == Grid + 1
NegInf == -(Grid + 1)
NaN == Grid + 2

IsFinite(x) == x # NaN /\ x # PosInf /\ x # NegInf

\* a / d for d in {-1, 0, 1}, as IEEE division
Div(a, d) ==
    IF a = NaN \/ d = NaN THEN NaN
    ELSE IF d = 0 THEN (IF a > 0 THEN PosInf ELSE IF a < 0 THEN NegInf ELSE NaN)
    ELSE IF d = 1 THEN a
    ELSE -a

\* comparisons with nan are false
Ge0(x) == x # NaN /\ x >= 0
Le0(x) == x # NaN /\ x <= 0

SetMin(S) == CHOOSE x \in S : \A y \in S : x <= y
SetMax(S) == CHOOSE x \in S : \A y \in S : x >= y
Min2(a, b) == IF a <= b THEN a ELSE b
Max2(a, b) == IF a >= b THEN a ELSE b
Abs(x) == IF x < 0 THEN -x ELSE x

RECURSIVE SeqSum(_)
SeqSum(s) == IF s = <<>> THEN 0 ELSE Head(s) + SeqSum(Tail(s))

-----------------------------------------------------------------------------
(* The model: BaseAbstractModel.forward, an external collaborator *)

Points(ndim) == [1..ndim -> 0..Grid]

Shapes == {"flat", "ramp", "peak", "step"}

Models == [ndim : Dims, shape : Shapes]

\* model.forward(U): a deterministic log-likelihood, here one of 0, 1, 2 (tenths):
\* a plateau, a ramp along the first coordinate, a peak in the middle of the last
\* coordinate, and a discontinuous step
forward(m, U) ==
    CASE m.shape = "flat" -> 1
      [] m.shape = "ramp" -> (2 * U[1]) \div Grid
      [] m.shape = "peak" -> 2 - (2 * Abs(2 * U[m.ndim] - Grid)) \div Grid
      [] m.shape = "step" -> IF 2 * U[1] >= Grid THEN 2 ELSE 0


-----------------------------------------------------------------------------
(* uni_slice_sampler.py: the slice proposal primitive *)

\* unit directions on the grid: every nonzero vector of {-1, 0, 1}^ndim (a
\* diagonal keeps its integer scale: t is measured along it in that scale)
Directions(ndim) == {d \in [1..ndim -> {-1, 0, 1}] : \E i \in 1..ndim : d[i] # 0}

\* _sample_direction: the fixed direction 1 for ndim = 1, a random one otherwise
_sample_direction(ndim) ==
    IF ndim = 1 THEN {[i \in 1..1 |-> 1]} ELSE Directions(ndim)

\* _slice_bounds that takes the farther of the two faces on each side
_slice_bounds_Loosest(point_U0, direction) ==
    LET I == DOMAIN point_U0
        t1 == [i \in I |-> Div(Grid - point_U0[i], direction[i])]
        t1_right == SetMin({IF Ge0(t1[i]) THEN t1[i] ELSE PosInf : i \in I})
        t1_left == SetMax({IF Le0(t1[i]) THEN t1[i] ELSE NegInf : i \in I})
        t0 == [i \in I |-> Div(-point_U0[i], direction[i])]
        t0_right == SetMin({IF Ge0(t0[i]) THEN t0[i] ELSE PosInf : i \in I})
        t0_left == SetMax({IF Le0(t0[i]) THEN t0[i] ELSE NegInf : i \in I})
    IN  <<Min2(t0_left, t1_left), Max2(t0_right, t1_right)>>

\* _slice_bounds: <<left_bound, right_bound>>
_slice_bounds(point_U0, direction) ==
    LET I == DOMAIN point_U0
        t1 == [i \in I |-> Div(Grid - point_U0[i], direction[i])]
        t1_right == SetMin({IF Ge0(t1[i]) THEN t1[i] ELSE PosInf : i \in I})
        t1_left == SetMax({IF Le0(t1[i]) THEN t1[i] ELSE NegInf : i \in I})
        t0 == [i \in I |-> Div(-point_U0[i], direction[i])]
        t0_right == SetMin({IF Ge0(t0[i]) THEN t0[i] ELSE PosInf : i \in I})
        t0_left == SetMax({IF Le0(t0[i]) THEN t0[i] ELSE NegInf : i \in I})
        right_bound == Min2(t0_right, t1_right)
        left_bound == Max2(t0_left, t1_left)
    IN  <<left_bound, right_bound>>

\* random.uniform(minval=left, maxval=right): the values of [left, right) on the
\* grid, and left itself when the interval is empty
Uniform(left, right) == IF left < right THEN left..(right - 1) ELSE {left}

\* _pick_point_in_interval, for the draw t: <<point_U, t>>
_pick_point_in_interval(t, point_U0, direction) ==
    <<[i \in DOMAIN point_U0 |-> point_U0[i] + t * direction[i]], t>>

\* alpha * x for alpha = a / AlphaDen, rounded to the nearest grid value (ties to even)
Scale(a, x) ==
    LET n == a * Abs(x)
        q == n \div AlphaDen
        r == n % AlphaDen
        m == IF 2 * r > AlphaDen \/ (2 * r = AlphaDen /\ q % 2 = 1) THEN q + 1 ELSE q
    IN  IF x < 0 THEN -m ELSE m

\* _shrink_interval with the two tests exchanged: a rejected t > 0 moves left
_shrink_interval_Swapped(a, t, left, right, midpoint_shrink) ==
    LET left1 == IF t > 0 THEN t ELSE left
        right1 == IF t < 0 THEN t ELSE right
    IN  IF midpoint_shrink
        THEN <<IF t > 0 THEN Scale(a, left1) ELSE left1,
               IF t < 0 THEN Scale(a, right1) ELSE right1>>
        ELSE <<left1, right1>>

\* _shrink_interval that forgets to move left to a rejected t < 0
_shrink_interval_KeepsLeft(a, t, left, right, midpoint_shrink) ==
    LET right1 == IF t > 0 THEN t ELSE right
    IN  IF midpoint_shrink
        THEN <<left, IF t > 0 THEN Scale(a, right1) ELSE right1>>
        ELSE <<left, right1>>

\* _shrink_interval, for the draw alpha = a / AlphaDen: <<left, right>>
_shrink_interval(a, t, left, right, midpoint_shrink) ==
    LET left1 == IF t < 0 THEN t ELSE left
        right1 == IF t > 0 THEN t ELSE right
    IN  IF midpoint_shrink
        THEN <<IF t < 0 THEN Scale(a, left1) ELSE left1,
               IF t > 0 THEN Scale(a, right1) ELSE right1>>
        ELSE <<left1, right1>>

\* _new_proposal.cond: the loop goes on
cond(c, log_L0, constraint) ==
    LET close_to_zero_interval == (c.right - c.left) <= 2 * Eps
        satisfaction == c.log_L > constraint
        lesser_satisfaction == log_L0 = constraint /\ c.log_L = constraint
        done == (close_to_zero_interval \/ satisfaction) \/ lesser_satisfaction
    IN  ~done

\* _new_proposal.body, for the draws alpha = a / AlphaDen and t
body(c, a, t, m, U0, midpoint_shrink) ==
    LET lr == _shrink_interval(a, c.t, c.left, c.right, midpoint_shrink)
        pt == _pick_point_in_interval(t, U0, c.direction)
    IN  [direction |-> c.direction,
         left |-> lr[1],
         right |-> lr[2],
         t |-> pt[2],
         point_U |-> pt[1],
         log_L |-> forward(m, pt[1]),
         num_likelihood_evaluations |-> c.num_likelihood_evaluations + 1]

\* the values jax.grad(model.forward)(U0) may take: any vector of {-1, 0, 1}^ndim
\* (the zero gradient included) and a non-finite one
Gradients(ndim) == [1..ndim -> {-1, 0, 1}] \cup {[i \in 1..ndim |-> NaN]}

\* jnp.linalg.norm, as far as the code reads it: 0, non-finite, or 1 (the grid's
\* directions stand for unit vectors)
Norm(g) ==
    IF \E i \in DOMAIN g : ~IsFinite(g[i]) THEN NaN
    ELSE IF \A i \in DOMAIN g : g[i] = 0 THEN 0
    ELSE 1

\* the direction of a gradient slice without the fallback: the normalised gradient
GradientDirection_NoFallback(g, fallback) ==
    [i \in DOMAIN g |-> Div(g[i], IF \A j \in DOMAIN g : g[j] = 0 THEN 0 ELSE 1)]

\* _new_proposal, lines 180-194: the direction of a gradient slice, given the
\* gradient g and the fallback direction drawn by _sample_direction
GradientDirection(g, fallback) ==
    LET norm == Norm(g)
        direction == [i \in DOMAIN g |-> Div(g[i], norm)]
    IN  IF norm = 0 \/ ~IsFinite(norm) THEN fallback ELSE direction

\* _new_proposal, lines 179-223: the initial carry, for the direction and the first draw t
InitCarry(m, U0, direction, t, left, right, n0) ==
    LET pt == _pick_point_in_interval(t, U0, direction)
    IN  [direction |-> direction,
         left |-> left,
         right |-> right,
         t |-> pt[2],
         point_U |-> pt[1],
         log_L |-> forward(m, pt[1]),
         num_likelihood_evaluations |-> n0]

-----------------------------------------------------------------------------
(* uni_slice_sampler.py: UniDimSliceSampler *)

NoSampler ==
    [ok |-> FALSE, num_slices |-> 0, num_phantom_save |-> 0,
     midpoint_shrink |-> FALSE, perfect |-> FALSE, gradient_slice |-> FALSE]

\* the arguments a caller may pass to UniDimSliceSampler(...)
CtorArgs ==
    [num_slices : 0..MaxSlices, num_phantom_save : (-1)..MaxSlices,
     midpoint_shrink : BOOLEAN, perfect : BOOLEAN, gradient_slice : BOOLEAN]

\* __init__ that lets num_phantom_save = num_slices through (> for >=)
UniDimSliceSampler_init_Gt(a) ==
    IF a.num_slices < 1 THEN NoSampler
    ELSE IF a.num_phantom_save < 0 THEN NoSampler
    ELSE IF a.num_phantom_save > a.num_slices THEN NoSampler
    ELSE IF ~a.perfect THEN NoSampler
    ELSE [ok |-> TRUE, num_slices |-> a.num_slices,
          num_phantom_save |-> a.num_phantom_save,
          midpoint_shrink |-> a.midpoint_shrink, perfect |-> a.perfect,
          gradient_slice |-> a.gradient_slice]

\* UniDimSliceSampler.__init__: the sampler, or NoSampler when a ValueError is raised
UniDimSliceSampler_init(a) ==
    IF a.num_slices < 1 THEN NoSampler
    ELSE IF a.num_phantom_save < 0 THEN NoSampler
    ELSE IF a.num_phantom_save >= a.num_slices THEN NoSampler
    ELSE IF ~a.perfect THEN NoSampler
    ELSE [ok |-> TRUE, num_slices |-> a.num_slices,
          num_phantom_save |-> a.num_phantom_save,
          midpoint_shrink |-> a.midpoint_shrink, perfect |-> a.perfect,
          gradient_slice |-> a.gradient_slice]

\* UniDimSliceSampler.num_phantom
num_phantom(s) == s.num_phantom_save

Sample(U, constraint, log_L, n) ==
    [U_sample |-> U, log_L_constraint |-> constraint, log_L |-> log_L,
     num_likelihood_evaluations |-> n]

\* get_sample_from_seed.propose_op: the next chain state, from the loop's final carry
propose_op(smp, c, constraint) ==
    Sample(c.point_U, constraint, c.log_L,
           c.num_likelihood_evaluations + smp.num_likelihood_evaluations)

\* cumulative_op_static: the scan appends each step's output to its results
cumulative_op_static(results, out) == Append(results, out)

\* x[len(x) - k:], the last k states, the terminal one among them
PhantomSlice_WithTerminal(x, k) == SubSeq(x, Len(x) - k + 1, Len(x))

\* x[-(k + 1):-1], Python's slice of a sequence
PhantomSlice(x, k) ==
    LET start == Max2(Len(x) - (k + 1), 0)
        stop == Max2(Len(x) - 1, 0)
    IN  SubSeq(x, start + 1, stop)

\* (a / b) rounded up instead of truncated
DivToInt_Ceil(a, b) == (a + b - 1) \div b

\* (a / b).astype(int_type) for a >= 0, b > 0
DivToInt(a, b) == a \div b

\* get_sample_from_seed, lines 348-370: (final_sample, phantom_samples)
SplitEvaluations(final, cumulative, k) ==
    LET phantom_samples == PhantomSlice(cumulative, k)
        per_phantom == DivToInt(final.num_likelihood_evaluations, k + 1)
        per_accepted == final.num_likelihood_evaluations - per_phantom * k
    IN  [final_sample |-> [final EXCEPT !.num_likelihood_evaluations = per_accepted],
         phantom_samples |->
            [i \in DOMAIN phantom_samples |->
                [phantom_samples[i] EXCEPT !.num_likelihood_evaluations = per_phantom]]]

\* sizes of the front window, and the values a Gumbel draw takes
WindowSizes == {1, 2}
Gumbels == {0, 1}

\* the front windows over the model m: entries of points with their stored log_L
Windows(m) ==
    UNION {[1..n -> {[U |-> U, log_L |-> forward(m, U)] : U \in Points(m.ndim)}] :
              n \in WindowSizes}

\* jnp.argmax: the first index of the greatest value
ArgMax(x) == CHOOSE i \in DOMAIN x :
                /\ \A j \in DOMAIN x : x[j] <= x[i]
                /\ \A j \in DOMAIN x : j < i => x[j] < x[i]

\* g + unnorm_select_log_prob, where the latter is 0 or -inf
AddLogProb(g, log_prob) == IF log_prob = NegInf THEN NegInf ELSE g + log_prob

\* get_seed_point that draws among all entries, eligible or not
get_seed_point_Unmasked(w, g, constraint) ==
    LET sample_idx == ArgMax([i \in DOMAIN w |-> AddLogProb(g[i], 0)])
    IN  [U0 |-> w[sample_idx].U, log_L0 |-> w[sample_idx].log_L]

\* UniDimSliceSampler.get_seed_point, for the window w and the Gumbel draws g
get_seed_point(w, g, constraint) ==
    LET select_mask == [i \in DOMAIN w |-> w[i].log_L > constraint]
        any_satisfied == \E i \in DOMAIN w : select_mask[i]
        yes_ == 0
        no_ == NegInf
        unnorm_select_log_prob ==
            [i \in DOMAIN w |->
                IF any_satisfied THEN (IF select_mask[i] THEN yes_ ELSE no_) ELSE yes_]
        sample_idx == ArgMax([i \in DOMAIN w |->
                                 AddLogProb(g[i], unnorm_select_log_prob[i])])
    IN  [U0 |-> w[sample_idx].U, log_L0 |-> w[sample_idx].log_L]

-----------------------------------------------------------------------------
(* multi_ellipsoidal_samplers.py: MultiellipsoidalSampler.get_sample *)

\* efficiency_threshold, as <<numerator, denominator>>
EffThresholds == {<<1, 1>>, <<1, 2>>, <<2, 5>>, <<1, 3>>}

\* n >= 1. / efficiency_threshold
ExceedsInverse_Geq(n, eff) == n * eff[1] >= eff[2]

\* n > 1. / efficiency_threshold
ExceedsInverse(n, eff) == n * eff[1] > eff[2]

\* get_sample.body that replaces the candidate by a fresh draw even when it is accepted
ell_body_FreshDraw(cs, m, eff, U_new) ==
    LET log_L == forward(m, cs.U)
        num_likelihood_evals == cs.num_likelihood_evals + 1
        constraint == IF num_likelihood_evals * eff[1] > eff[2]
                      THEN cs.log_L_constraint - Backoff
                      ELSE cs.log_L_constraint
    IN  [done |-> log_L > constraint,
         U |-> U_new,
         log_L |-> log_L,
         log_L_constraint |-> constraint,
         num_likelihood_evals |-> num_likelihood_evals]

\* get_sample.body that counts the rejected attempts only
ell_body_CountsRejections(cs, m, eff, U_new) ==
    LET log_L == forward(m, cs.U)
        attempts == cs.num_likelihood_evals + 1
        constraint == IF attempts * eff[1] > eff[2]
                      THEN cs.log_L_constraint - Backoff
                      ELSE cs.log_L_constraint
        done == log_L > constraint
    IN  [done |-> done,
         U |-> IF done THEN cs.U ELSE U_new,
         log_L |-> log_L,
         log_L_constraint |-> constraint,
         num_likelihood_evals |-> IF done THEN cs.num_likelihood_evals ELSE attempts]

\* get_sample.body without the back-off: the constraint is never relaxed
ell_body_NoBackoff(cs, m, eff, U_new) ==
    LET log_L == forward(m, cs.U)
        done == log_L > cs.log_L_constraint
    IN  [done |-> done,
         U |-> IF done THEN cs.U ELSE U_new,
         log_L |-> log_L,
         log_L_constraint |-> cs.log_L_constraint,
         num_likelihood_evals |-> cs.num_likelihood_evals + 1]

\* get_sample.body, for the next candidate U_new drawn by sample_multi_ellipsoid
ell_body(cs, m, eff, U_new) ==
    LET log_L == forward(m, cs.U)
        num_likelihood_evals == cs.num_likelihood_evals + 1
        constraint == IF ExceedsInverse(num_likelihood_evals, eff)
                      THEN cs.log_L_constraint - Backoff
                      ELSE cs.log_L_constraint
        done == log_L > constraint
    IN  [done |-> done,
         U |-> IF done THEN cs.U ELSE U_new,
         log_L |-> log_L,
         log_L_constraint |-> constraint,
         num_likelihood_evals |-> num_likelihood_evals]

\* the returned Sample, carrying the threshold get_sample was called with
ell_Sample_OriginalThreshold(cs) ==
    [point_U |-> cs.U, log_L_constraint |-> ell_in.log_L_constraint, log_L |-> cs.log_L,
     num_likelihood_evaluations |-> cs.num_likelihood_evals, num_slices |-> 0,
     iid |-> TRUE]

\* get_sample, lines 88-94: the returned Sample
ell_Sample(cs) ==
    [point_U |-> cs.U, log_L_constraint |-> cs.log_L_constraint, log_L |-> cs.log_L,
     num_likelihood_evaluations |-> cs.num_likelihood_evals, num_slices |-> 0,
     iid |-> TRUE]

-----------------------------------------------------------------------------
(* The state machine *)

NoPoint == <<>>
NoSeed == [U0 |-> NoPoint, log_L0 |-> 0]
NoSample == Sample(NoPoint, 0, 0, 0)
NoCarry ==
    [direction |-> NoPoint, left |-> 0, right |-> 0, t |-> 0, point_U |-> NoPoint,
     log_L |-> 0, num_likelihood_evaluations |-> 0]
NoResult == [final_sample |-> NoSample, phantom_samples |-> <<>>]
NoArgs ==
    [num_slices |-> 0, num_phantom_save |-> 0, midpoint_shrink |-> FALSE,
     perfect |-> FALSE, gradient_slice |-> FALSE]
NoEllIn == [log_L_constraint |-> 0, efficiency_threshold |-> <<1, 1>>]
NoEll ==
    [done |-> FALSE, U |-> NoPoint, log_L |-> 0, log_L_constraint |-> 0,
     num_likelihood_evals |-> 0]
NoEllSample ==
    [point_U |-> NoPoint, log_L_constraint |-> 0, log_L |-> 0,
     num_likelihood_evaluations |-> 0, num_slices |-> 0, iid |-> FALSE]

\* thresholds the outer loop may pass
Thresholds == 0..2
EllThresholds == 0..4

Init ==
    /\ pc = "start"
    /\ model \in Models
    /\ ctor_args = NoArgs
    /\ sampler = NoSampler
    /\ seed_point = NoSeed
    /\ log_L_constraint = 0
    /\ sample = NoSample
    /\ cumulative_samples = <<>>
    /\ carry = NoCarry
    /\ result = NoResult
    /\ evals = 0
    /\ ell_in = NoEllIn
    /\ ell = NoEll
    /\ ell_inforce = 0
    /\ ell_sample = NoEllSample
    /\ window = <<>>
    /\ gumbel = <<>>
    /\ grad = NoPoint

sliceVars == <<seed_point, log_L_constraint, sample, cumulative_samples,
               carry, result, evals, grad>>
ellVars == <<ell_in, ell, ell_inforce, ell_sample>>
seedVars == <<window, gumbel>>

\* UniDimSliceSampler(model, num_slices, num_phantom_save, midpoint_shrink, perfect, gradient_slice)
Construct ==
    /\ pc = "start"
    /\ \E a \in CtorArgs :
        /\ ctor_args' = a
        /\ sampler' = UniDimSliceSampler_init(a)
        /\ pc' = IF UniDimSliceSampler_init(a).ok THEN "ready" ELSE "config_error"
    /\ UNCHANGED <<model, sliceVars, ellVars, seedVars>>

\* get_seed_point(key, sampler_state, log_L_constraint)
GetSeedPoint ==
    /\ pc = "ready"
    /\ \E w \in Windows(model), constraint \in Thresholds :
        \E g \in [DOMAIN w -> Gumbels] :
            /\ window' = w
            /\ gumbel' = g
            /\ log_L_constraint' = constraint
            /\ seed_point' = get_seed_point(w, g, constraint)
    /\ pc' = "seeded"
    /\ UNCHANGED <<model, ctor_args, sampler, sample, cumulative_samples, carry,
                   result, evals, grad, ellVars>>

\* get_sample_from_seed is entered: lines 335-340
GetSampleFromSeed ==
    /\ pc = "ready"
    /\ \E U0 \in Points(model.ndim), constraint \in Thresholds :
        /\ seed_point' = [U0 |-> U0, log_L0 |-> forward(model, U0)]
        /\ log_L_constraint' = constraint
        /\ sample' = Sample(U0, constraint, forward(model, U0), 0)
    /\ cumulative_samples' = <<>>
    /\ evals' = 0
    /\ pc' = "propose"
    /\ UNCHANGED <<model, ctor_args, sampler, carry, result, grad, ellVars, seedVars>>

\* _new_proposal up to the while_loop: lines 179-223
NewProposal ==
    /\ pc = "propose"
    /\ sampler.perfect
    /\ \E fallback \in _sample_direction(model.ndim) :
        \E g \in (IF sampler.gradient_slice THEN Gradients(model.ndim) ELSE {fallback}) :
            LET direction == IF sampler.gradient_slice
                             THEN GradientDirection(g, fallback) ELSE fallback
                bounds == _slice_bounds(sample.U_sample, direction)
                left == IF sampler.gradient_slice THEN 0 ELSE bounds[1]
                right == bounds[2]
                n0 == IF sampler.gradient_slice THEN 1 ELSE 0
            IN  \E t \in Uniform(left, right) :
                    /\ carry' = InitCarry(model, sample.U_sample, direction, t,
                                          left, right, n0)
                    /\ evals' = evals + n0 + 1
                    /\ grad' = IF sampler.gradient_slice THEN g ELSE NoPoint
    /\ pc' = "while"
    /\ UNCHANGED <<model, ctor_args, sampler, seed_point, log_L_constraint, sample,
                   cumulative_samples, result, ellVars, seedVars>>

\* one iteration of the while_loop: _new_proposal.body
Body ==
    /\ pc = "while"
    /\ cond(carry, sample.log_L, log_L_constraint)
    /\ carry.num_likelihood_evaluations < MaxIters + (IF sampler.gradient_slice THEN 1 ELSE 0)
    /\ \E a \in (IF sampler.midpoint_shrink THEN Alphas ELSE {0}) :
        LET lr == _shrink_interval(a, carry.t, carry.left, carry.right,
                                   sampler.midpoint_shrink)
        IN  \E t \in Uniform(lr[1], lr[2]) :
                carry' = body(carry, a, t, model, sample.U_sample,
                              sampler.midpoint_shrink)
    /\ evals' = evals + 1
    /\ UNCHANGED <<pc, model, ctor_args, sampler, seed_point, log_L_constraint,
                   sample, cumulative_samples, result, grad, ellVars, seedVars>>

\* the while_loop ends, _new_proposal returns and propose_op yields the next chain state
ProposeReturn ==
    /\ pc = "while"
    /\ ~cond(carry, sample.log_L, log_L_constraint)
    /\ sample' = propose_op(sample, carry, log_L_constraint)
    /\ cumulative_samples' = cumulative_op_static(cumulative_samples, sample')
    /\ pc' = IF Len(cumulative_samples') = sampler.num_slices THEN "scanned" ELSE "propose"
    /\ UNCHANGED <<model, ctor_args, sampler, seed_point, log_L_constraint, carry,
                   result, evals, grad, ellVars, seedVars>>

\* get_sample_from_seed after the scan: lines 348-370
Return ==
    /\ pc = "scanned"
    /\ result' = SplitEvaluations(sample, cumulative_samples, sampler.num_phantom_save)
    /\ pc' = "returned"
    /\ UNCHANGED <<model, ctor_args, sampler, seed_point, log_L_constraint, sample,
                   cumulative_samples, carry, evals, grad, ellVars, seedVars>>

\* MultiellipsoidalSampler.get_sample is entered: lines 78-84
EllGetSample ==
    /\ pc = "start"
    /\ \E constraint \in EllThresholds, eff \in EffThresholds, U \in Points(model.ndim) :
        /\ ell_in' = [log_L_constraint |-> constraint, efficiency_threshold |-> eff]
        /\ ell' = [done |-> FALSE, U |-> U, log_L |-> constraint,
                   log_L_constraint |-> constraint, num_likelihood_evals |-> 0]
        /\ ell_inforce' = constraint
    /\ evals' = 0
    /\ pc' = "ell_while"
    /\ UNCHANGED <<model, ctor_args, sampler, seed_point, log_L_constraint, sample,
                   cumulative_samples, carry, result, grad, ell_sample, seedVars>>

\* one iteration of the rejection loop: get_sample.body
EllBody ==
    /\ pc = "ell_while"
    /\ ~ell.done
    /\ \E U_new \in Points(model.ndim) :
        ell' = ell_body(ell, model, ell_in.efficiency_threshold, U_new)
    /\ ell_inforce' = ell'.log_L_constraint
    /\ evals' = evals + 1
    /\ UNCHANGED <<pc, model, ctor_args, sampler, seed_point, log_L_constraint, sample,
                   cumulative_samples, carry, result, grad, ell_in, ell_sample, seedVars>>

\* the rejection loop ends and get_sample returns: lines 86-94
EllReturn ==
    /\ pc = "ell_while"
    /\ ell.done
    /\ ell_sample' = ell_Sample(ell)
    /\ pc' = "ell_returned"
    /\ UNCHANGED <<model, ctor_args, sampler, sliceVars, ell_in, ell, ell_inforce, seedVars>>

Next ==
    \/ Construct
    \/ GetSeedPoint
    \/ GetSampleFromSeed
    \/ NewProposal
    \/ Body
    \/ ProposeReturn
    \/ Return
    \/ EllGetSample
    \/ EllBody
    \/ EllReturn

Spec == Init /\ [][Next]_vars

\* lax.while_loop runs its body while the condition holds and the code after
\* the loop runs once it ends: the loop's steps and the return are not postponed forever
FairSpec == Spec /\ WF_vars(EllBody) /\ WF_vars(EllReturn)

-----------------------------------------------------------------------------
(* get_sample_from_seed, lines 348-370, applied to a scan's outcome: the final *)
(* chain state with any running counter, for every admissible configuration   *)

\* the samplers __init__ accepts with num_slices up to MaxChain
ChainSamplers ==
    {UniDimSliceSampler_init(a) :
        a \in {b \in [num_slices : 1..MaxChain, num_phantom_save : 0..MaxChain,
                      midpoint_shrink : {FALSE}, perfect : {TRUE},
                      gradient_slice : BOOLEAN] :
                  b.num_phantom_save < b.num_slices}}

\* the scan's outputs for a chain of n slices whose running counter ends at total
ScanOutputs(n, total) ==
    [i \in 1..n |-> Sample(<<i % (Grid + 1)>>, 0, 1, (i * total) \div n)]

SplitInit ==
    /\ pc = "scanned"
    /\ model \in {[ndim |-> 1, shape |-> "flat"]}
    /\ ctor_args = NoArgs
    /\ sampler \in ChainSamplers
    /\ seed_point = NoSeed
    /\ log_L_constraint = 0
    /\ \E total \in 0..MaxTotal :
        /\ cumulative_samples = ScanOutputs(sampler.num_slices, total)
        /\ sample = cumulative_samples[sampler.num_slices]
    /\ carry = NoCarry
    /\ result = NoResult
    /\ evals = 0
    /\ ell_in = NoEllIn
    /\ ell = NoEll
    /\ ell_inforce = 0
    /\ ell_sample = NoEllSample
    /\ window = <<>>
    /\ gumbel = <<>>
    /\ grad = NoPoint

SplitNext == Return

SplitSpec == SplitInit /\ [][SplitNext]_vars

-----------------------------------------------------------------------------
(* The slice sampler on two-dimensional models: the directions then have      *)
(* several coordinates, zero ones among them, and _slice_bounds takes the     *)
(* nearest face of the cube over the coordinates                              *)

PlaneDims == {2}
PlaneShapes == {"peak"}
PlaneModels == [ndim : PlaneDims, shape : PlaneShapes]

\* the constructed samplers: chains of two slices that keep one phantom
PlaneArgs ==
    [num_slices : {2}, num_phantom_save : {1}, midpoint_shrink : BOOLEAN,
     perfect : {TRUE}, gradient_slice : BOOLEAN]

PlaneInit ==
    /\ pc = "ready"
    /\ model \in PlaneModels
    /\ ctor_args \in PlaneArgs
    /\ sampler = UniDimSliceSampler_init(ctor_args)
    /\ seed_point = NoSeed
    /\ log_L_constraint = 0
    /\ sample = NoSample
    /\ cumulative_samples = <<>>
    /\ carry = NoCarry
    /\ result = NoResult
    /\ evals = 0
    /\ ell_in = NoEllIn
    /\ ell = NoEll
    /\ ell_inforce = 0
    /\ ell_sample = NoEllSample
    /\ window = <<>>
    /\ gumbel = <<>>
    /\ grad = NoPoint

PlaneNext ==
    \/ GetSampleFromSeed
    \/ NewProposal
    \/ Body
    \/ ProposeReturn
    \/ Return

PlaneSpec == PlaneInit /\ [][PlaneNext]_vars

-----------------------------------------------------------------------------
(* Properties *)

\* positions of the program inside the life of a UniDimSliceSampler(...) call
AfterConstruct == pc \in {"config_error", "ready", "propose", "while", "scanned", "returned"}

\* the chain position of the returned sample: the terminal one is the last of
\* the scan, phantom i is the i-th of the num_phantom_save states before it
ChainLen == Len(cumulative_samples)
Retained == (ChainLen - Len(result.phantom_samples))..ChainLen
ReturnedAt(j) ==
    IF j = ChainLen THEN result.final_sample
    ELSE result.phantom_samples[j - (ChainLen - Len(result.phantom_samples) - 1)]
\* log_L0 of the seed of the proposal that produced chain state j
SeedLogL(j) == IF j = 1 THEN seed_point.log_L0 ELSE cumulative_samples[j - 1].log_L

Satisfies(s) == s.log_L > s.log_L_constraint
PlateauTie(s, j) == SeedLogL(j) = s.log_L_constraint /\ s.log_L = s.log_L_constraint

\* C1: every returned sample (the terminal one and each retained phantom) has
\* log_L > log_L_constraint, unless its seed's log_L0 and its own log_L both
\* equal log_L_constraint (plateau tie-break).
C1_AcceptedAboveConstraint ==
    pc = "returned" =>
        \A j \in Retained \cap (1..ChainLen) :
            Satisfies(ReturnedAt(j)) \/ PlateauTie(ReturnedAt(j), j)

\* C2: the evaluation counts of the terminal sample and of the phantoms add up
\* to the number of model evaluations the invocation performed.
C2_EvaluationsConserved ==
    pc = "returned" =>
        result.final_sample.num_likelihood_evaluations
          + SeqSum([i \in DOMAIN result.phantom_samples |->
                      result.phantom_samples[i].num_likelihood_evaluations])
          = evals

\* C3: the Sample returned by MultiellipsoidalSampler.get_sample carries the
\* constraint that the accepting attempt compared against, and its log_L is
\* strictly greater than that constraint.
C3_CarriesConstraintInForce ==
    pc = "ell_returned" =>
        /\ ell_sample.log_L_constraint = ell_inforce
        /\ ell_sample.log_L > ell_sample.log_L_constraint

\* C3 witness: a sample accepted under a relaxed constraint, which the
\* original threshold would have rejected
C3_Witness ==
    /\ pc = "ell_returned"
    /\ ell_sample.log_L_constraint < ell_in.log_L_constraint
    /\ ell_sample.log_L <= ell_in.log_L_constraint

\* the number of attempts among the first n that relax the constraint, when
\* attempt j relaxes it iff Relaxes(j)
Relaxations(n, Relaxes(_)) == Cardinality({j \in 1..n : Relaxes(j)})

InEllLoop == pc \in {"ell_while", "ell_returned"}

\* attempt j is made after j - 1 rejected attempts: the claim relaxes at j iff
\* j - 1 > 1 / efficiency_threshold
ClaimedRelax(j) ==
    (j - 1) * ell_in.efficiency_threshold[1] > ell_in.efficiency_threshold[2]
\* the amended rule: attempt j relaxes iff j > 1 / efficiency_threshold
AttemptRelax(j) ==
    j * ell_in.efficiency_threshold[1] > ell_in.efficiency_threshold[2]

SameSample(a, b) ==
    /\ a.U_sample = b.U_sample
    /\ a.log_L = b.log_L
    /\ a.log_L_constraint = b.log_L_constraint

C5_WitnessNone ==
    /\ pc = "returned"
    /\ sampler.num_phantom_save = 0
    /\ sampler.num_slices = 2
    /\ result.phantom_samples = <<>>

\* C6: in every state of the shrink-propose loop, left <= 0 <= right.
C6_BracketContainsZero ==
    pc = "while" => carry.left <= 0 /\ 0 <= carry.right

\* C6 witness: a bracket shrunk from both sides by midpoint_shrink
C6_Witness ==
    /\ pc = "while"
    /\ sampler.midpoint_shrink
    /\ carry.num_likelihood_evaluations >= 2
    /\ carry.left > -sample.U_sample[1]
    /\ carry.right < Grid - sample.U_sample[1]

\* C6 witness of the gradient-mode clamp
C6_WitnessGradient ==
    /\ pc = "while"
    /\ sampler.gradient_slice
    /\ carry.left = 0
    /\ carry.right > 0
    /\ carry.num_likelihood_evaluations >= 2

BadConfiguration(a) ==
    \/ a.num_slices < 1
    \/ a.num_phantom_save < 0
    \/ a.num_phantom_save >= a.num_slices
    \/ a.perfect = FALSE

C9_PhantomCountsPositive ==
    (pc = "returned" /\ sampler.num_phantom_save > 0) =>
        /\ Len(result.phantom_samples) = sampler.num_phantom_save
        /\ \A i \in DOMAIN result.phantom_samples :
              result.phantom_samples[i].num_likelihood_evaluations >= 1

\* one iteration of the shrink-propose loop
Iteration == pc = "while" /\ pc' = "while"
Width(c) == c.right - c.left
\* what cond and body read of the carry (the counter and the key aside)
LoopState(c) == <<c.direction, c.left, c.right, c.t, c.point_U, c.log_L>>
\* a rejected draw that the shrink step cannot use: t = 0, or t at an end of the bracket
StalledDraw(c) == c.t = 0 \/ c.t = c.left \/ c.t = c.right

MinLogL == SetMin({forward(model, U) : U \in Points(model.ndim)})
\* the attempts the loop can make: floor(1 / efficiency_threshold) unrelaxed ones,
\* then one per 0.1 of threshold - MinLogL, then the one that must be accepted
AttemptBound ==
    ell_in.efficiency_threshold[2] \div ell_in.efficiency_threshold[1]
      + Max2(ell_in.log_L_constraint - MinLogL, 0) \div Backoff + 1

Eligible(e) == e.log_L > log_L_constraint
IsEntry(sp, e) == sp.U0 = e.U /\ sp.log_L0 = e.log_L

\* C12: get_seed_point returns U0 and log_L0 of one and the same window entry;
\* when some entry has log_L > threshold the returned one has log_L0 >
\* threshold; only when none has may an ineligible entry be returned.
C12_SeedIsEligibleEntry ==
    pc = "seeded" =>
        /\ \E i \in DOMAIN window : IsEntry(seed_point, window[i])
        /\ (\E i \in DOMAIN window : Eligible(window[i]))
              => seed_point.log_L0 > log_L_constraint

\* C12 witness: an ineligible entry has the greatest Gumbel draw, and an
\* eligible one is returned
C12_Witness ==
    /\ pc = "seeded"
    /\ Len(window) = 2
    /\ ~Eligible(window[1]) /\ Eligible(window[2])
    /\ gumbel[1] > gumbel[2]
    /\ IsEntry(seed_point, window[2])

\* C12 witness of the fallback: no entry is eligible and the second is returned
C12_WitnessFallback ==
    /\ pc = "seeded"
    /\ Len(window) = 2
    /\ \A i \in DOMAIN window : ~Eligible(window[i])
    /\ window[1] # window[2]
    /\ IsEntry(seed_point, window[2])

\* floor(a / b) for a >= 0, b > 0
Floor(a, b) == CHOOSE q \in 0..a : q * b <= a /\ a < (q + 1) * b

\* C13: with total the running counter of the final chain state and k =
\* num_phantom_save, each phantom's count is floor(total / (k + 1)) and the
\* terminal sample's is total - floor(total / (k + 1)) * k; the terminal count
\* is never smaller than a phantom's and the counts add up to total.
C13_SplitOfEvaluations ==
    pc = "returned" =>
        LET total == sample.num_likelihood_evaluations
            k == sampler.num_phantom_save
            q == Floor(total, k + 1)
            terminal == result.final_sample.num_likelihood_evaluations
            phantoms == [i \in DOMAIN result.phantom_samples |->
                            result.phantom_samples[i].num_likelihood_evaluations]
        IN  /\ Len(phantoms) = k
            /\ \A i \in DOMAIN phantoms : phantoms[i] = q
            /\ terminal = total - q * k
            /\ \A i \in DOMAIN phantoms : terminal >= phantoms[i]
            /\ terminal + SeqSum(phantoms) = total

\* C13 witness: a total that k + 1 does not divide, the remainder going to the
\* terminal sample
C13_Witness ==
    /\ pc = "returned"
    /\ sampler.num_phantom_save = 2
    /\ sample.num_likelihood_evaluations = 8
    /\ result.final_sample.num_likelihood_evaluations = 4
    /\ Len(result.phantom_samples) = 2
    /\ result.phantom_samples[1].num_likelihood_evaluations = 2

\* C13 witness of a total smaller than k + 1: the phantoms get 0
C13_WitnessSmallTotal ==
    /\ pc = "returned"
    /\ sampler.num_phantom_save = 3
    /\ sample.num_likelihood_evaluations = 2
    /\ result.final_sample.num_likelihood_evaluations = 2
    /\ result.phantom_samples[3].num_likelihood_evaluations = 0

DegenerateGradient(g) == (\A i \in DOMAIN g : g[i] = 0) \/ (\E i \in DOMAIN g : ~IsFinite(g[i]))

\* C14: in a gradient slice the bracket's left bound is 0 from the start and
\* after every shrink step, and every proposal has t >= 0; a zero or
\* non-finite gradient raises no error: the slice runs along a direction drawn
\* by _sample_direction.
C14_GradientSliceAscends ==
    (pc = "while" /\ sampler.gradient_slice) =>
        /\ carry.left = 0
        /\ carry.t >= 0
        /\ carry.direction \in Directions(model.ndim)
        /\ DegenerateGradient(grad) => carry.direction \in _sample_direction(model.ndim)

\* C14 witness: a gradient slice along a descending gradient whose bracket was
\* shrunk from the right, left staying at 0
C14_Witness ==
    /\ pc = "while"
    /\ sampler.gradient_slice
    /\ carry.direction[1] = -1
    /\ carry.num_likelihood_evaluations >= 2
    /\ carry.left = 0
    /\ 0 < carry.right /\ carry.right < sample.U_sample[1]

\* C14 witness of the fallback: a zero gradient, and the slice goes on
C14_WitnessZeroGradient ==
    /\ pc = "while"
    /\ sampler.gradient_slice
    /\ \A i \in DOMAIN grad : grad[i] = 0
    /\ carry.num_likelihood_evaluations >= 2

\* C14 witness of the fallback: a non-finite gradient, and the slice goes on
C14_WitnessNonFinite ==
    /\ pc = "while"
    /\ sampler.gradient_slice
    /\ \E i \in DOMAIN grad : ~IsFinite(grad[i])
    /\ carry.num_likelihood_evaluations >= 2

\* C15: the num_likelihood_evaluations of the Sample returned by
\* MultiellipsoidalSampler.get_sample is the number of model evaluations the
\* invocation performed, one per attempt, and is at least 1.
C15_EllipsoidCountsEveryAttempt ==
    pc = "ell_returned" =>
        /\ ell_sample.num_likelihood_evaluations = evals
        /\ ell_sample.num_likelihood_evaluations >= 1

\* C15 witness: two rejected attempts and the accepted one, three evaluations
C15_Witness ==
    /\ pc = "ell_returned"
    /\ evals = 3
    /\ ell_sample.num_likelihood_evaluations = 3

\* C15 witness of the least count: the first candidate is accepted
C15_WitnessFirstAccepted ==
    /\ pc = "ell_returned"
    /\ evals = 1
    /\ ell_sample.num_likelihood_evaluations = 1

\* C16: the log_L of a returned sample is the model's value at that sample's
\* own point: for the Sample of MultiellipsoidalSampler.get_sample, and for
\* the terminal sample and every phantom of the slice sampler, whichever exit
\* ended the proposal.
C16_LogLIsForwardOfPoint ==
    /\ pc = "ell_returned" => ell_sample.log_L = forward(model, ell_sample.point_U)
    /\ pc = "returned" =>
          /\ result.final_sample.log_L = forward(model, result.final_sample.U_sample)
          /\ \A i \in DOMAIN result.phantom_samples :
                result.phantom_samples[i].log_L
                  = forward(model, result.phantom_samples[i].U_sample)

\* the model's log-likelihood is not the same at every point
Discriminates == \E U, V \in Points(model.ndim) : forward(model, U) # forward(model, V)

\* C16 witness: an ellipsoid sample accepted after a rejection, on a model whose
\* log-likelihood tells points apart
C16_Witness ==
    /\ pc = "ell_returned"
    /\ Discriminates
    /\ ell_sample.num_likelihood_evaluations >= 2
    /\ ell_sample.log_L > ell_in.log_L_constraint

\* C16 witness of the slice sampler: a terminal sample left by the collapse of
\* the bracket and a phantom left by an acceptance, with different log_L
C16_WitnessSlice ==
    /\ pc = "returned"
    /\ Discriminates
    /\ Len(result.phantom_samples) = 1
    /\ result.phantom_samples[1].log_L > log_L_constraint
    /\ result.final_sample.log_L < log_L_constraint
    /\ result.final_sample.U_sample # result.phantom_samples[1].U_sample

\* C16 witness of the slice sampler: a terminal sample accepted by the plateau tie-break
C16_WitnessTie ==
    /\ pc = "returned"
    /\ seed_point.log_L0 = log_L_constraint
    /\ result.final_sample.log_L = log_L_constraint
    /\ result.final_sample.U_sample # seed_point.U0
    /\ Len(cumulative_samples) = 1

InCube(U) == \A i \in DOMAIN U : 0 <= U[i] /\ U[i] <= Grid

\* C17: every point at which the slice sampler evaluates the model lies in the
\* unit cube: for a seed in the cube, every proposal U0 + t * direction with t
\* in [left, right] is in the cube, at the first draw and after every shrink
\* step, and so is every chained seed and every returned sample and phantom.
C17_ProposalsInUnitCube ==
    /\ pc = "while" =>
          /\ InCube(carry.point_U)
          /\ \A t \in carry.left..carry.right :
                InCube([i \in DOMAIN sample.U_sample |->
                           sample.U_sample[i] + t * carry.direction[i]])
    /\ pc \in {"propose", "while", "scanned", "returned"} =>
          /\ InCube(sample.U_sample)
          /\ \A j \in DOMAIN cumulative_samples : InCube(cumulative_samples[j].U_sample)
    /\ pc = "returned" =>
          /\ InCube(result.final_sample.U_sample)
          /\ \A i \in DOMAIN result.phantom_samples :
                InCube(result.phantom_samples[i].U_sample)

\* C17 witness: a slice along a diagonal from a seed nearer to one face than to
\* the other, proposing the point on the nearest face
C17_Witness ==
    /\ pc = "while"
    /\ model.ndim = 2
    /\ carry.direction[1] # 0 /\ carry.direction[2] # 0
    /\ sample.U_sample[1] # sample.U_sample[2]
    /\ \E i \in DOMAIN carry.point_U : carry.point_U[i] \in {0, Grid}
    /\ carry.point_U # sample.U_sample

\* C17 witness: a chained seed on a face of the cube, and a slice from it
\* along a direction with a zero coordinate
C17_WitnessChained ==
    /\ pc = "while"
    /\ model.ndim = 2
    /\ Len(cumulative_samples) = 1
    /\ \E i \in DOMAIN sample.U_sample : sample.U_sample[i] \in {0, Grid}
    /\ \E i \in DOMAIN carry.direction : carry.direction[i] = 0
    /\ carry.num_likelihood_evaluations >= 1

=============================================================================
